---------------------------- MODULE Spec2Model ----------------------------
(***************************************************************************)
(* A model of the Monte Carlo core of magneto (2D Ising model):            *)
(*   - magneto::SW::run and magneto::Metropolis::run                       *)
(*     (src/magneto_lib/LatticeAlgorithms.cpp),                            *)
(*   - magneto::get_cached_exp_values (same file),                         *)
(*   - the buffer protocol the two run() functions follow,                 *)
(*   - run_job / get_physical_results (src/magneto_lib/magneto.cpp).       *)
(*                                                                         *)
(* Doubles.  Every double the engines compare is either a Boltzmann factor *)
(* exp(n/T) with an integer n, or a drawn real in [0,1).  With T > 0 the   *)
(* function exp(./T) is strictly increasing, so a double exp(n/T) is       *)
(* represented by the integer n and "<" on such doubles is "<" on the n.   *)
(* A drawn real in (0,1) is exp(n/T) for some n < 0.                       *)
(***************************************************************************)
EXTENDS Integers, Sequences, FiniteSets

\* ------------------------------------------------------------------ bounds
MaxL == 3          \* lattice sides 1..MaxL
ExhaustiveL == 2   \* sides up to this one get every lattice and every bond outcome
MaxDown == 1       \* larger sides: initial lattices with at most this many -1 spins
MaxFrozen == 2     \* larger sides: at most this many frozen bonds per sweep
MaxFlips == 2      \* larger sides: at most this many clusters per sweep draw "flip"
MaxSweeps == 2     \* engine runs in a sequence of runs
MaxJ == 2          \* |J| <= MaxJ
MaxStartRuns == 3  \* job.m_start_runs in 0..MaxStartRuns
MaxN == 3          \* job.m_n in 0..MaxN
MaxTemps == 2      \* job.m_temp_steps in 0..MaxTemps

VARIABLES
  L,               \* lattice.size()
  lattice,         \* LatticeType& lattice: site -> spin
  pc,              \* position of the engine
  sweepsLeft,      \* run() calls the caller still makes
  ran,             \* the engines whose run() the caller has entered, in order
  \* ---- SW::run locals
  doesBondNorth, doesBondEast, discovered, deq, flipCluster, counter,
  \* ---- SW::run history (not read by the engine)
  lattice0,        \* the lattice when run() was entered
  enq, dqc,        \* per site: times pushed on / popped from the deque
  owner,           \* per site: the seed whose flood fill discovered it
  coin,            \* per site: the flip decision in force when it was popped
  steps,           \* loop iterations run() has executed
  \* ---- Metropolis members and run() locals
  m_J, m_cached_exp_values, prop, flip_ij, dE, rnd,
  exp_dE,          \* get_cached_exp_values: the loop variable dE
  \* ---- the buffers of one engine and the thread inside its run()
  b_engine,        \* "Metropolis" or "SW": the engine that owns the buffers
  b_N,             \* the batch size L*L
  b_pc, b_i,       \* position in run() and its loop counter
  b_calls,         \* run() calls that have returned
  buf,             \* per buffer: cur, the number of the current batch, and
                   \* ready, whether the in-flight batch cur + 1 is generated
  \* ---- buffer history (not read by the engine)
  b_running,       \* per buffer: generation tasks launched and not finished
  b_got,           \* per buffer: batch returned by get_buffer() since the
                   \* last refill(), -1 when none
  b_refills,       \* per buffer: refill() calls of the run() in progress
  b_flags,         \* protocol violations seen so far
  \* ---- run_job
  job,             \* const magneto::Job& job
  j_pc,            \* position of the thread inside run_job
  j_TAlg,          \* template arguments of run_job<TAlg, TImager>
  j_TImager,
  tasks,           \* per temperature: the get_physical_results call
  j_errors,        \* errors logged by run_job
  j_writes         \* write_results calls

engineVars == <<L, lattice, pc, sweepsLeft, ran>>
swVars == <<doesBondNorth, doesBondEast, discovered, deq, flipCluster, counter>>
swHist == <<lattice0, enq, dqc, owner, coin, steps>>
metCtor == <<m_J, m_cached_exp_values, exp_dE>>
metVars == <<metCtor, prop, flip_ij, dE, rnd>>
bufVars == <<b_engine, b_N, b_pc, b_i, b_calls, buf, b_running, b_got, b_refills, b_flags>>
latVars == <<engineVars, swVars, swHist, metVars>>
jobVars == <<job, j_pc, j_TAlg, j_TImager, tasks, j_errors, j_writes>>
vars == <<latVars, bufVars, jobVars>>
nonLat == <<bufVars, jobVars>>
nonBuf == <<latVars, jobVars>>
nonJob == <<latVars, bufVars>>

None == "none"
Abs(n) == IF n < 0 THEN -1 * n ELSE n
Spin == {-1, 1}
Sites(l) == (0 .. l - 1) \X (0 .. l - 1)

\* ------------------------------------------------------- input families
RECURSIVE SubsetsUpTo(_, _)
SubsetsUpTo(S, k) ==
  IF k = 0 \/ S = {} THEN {{}}
  ELSE LET x == CHOOSE e \in S : TRUE
           rest == S \ {x}
       IN  SubsetsUpTo(rest, k) \cup {T \cup {x} : T \in SubsetsUpTo(rest, k - 1)}

DownSets(l) ==
  IF l <= ExhaustiveL THEN SUBSET Sites(l) ELSE SubsetsUpTo(Sites(l), MaxDown)

Lattices(l) == {[s \in Sites(l) |-> IF s \in D THEN -1 ELSE 1] : D \in DownSets(l)}

BondSlots(l) == {"n", "e"} \X Sites(l)

FrozenSets(l) ==
  IF l <= ExhaustiveL THEN SUBSET BondSlots(l) ELSE SubsetsUpTo(BondSlots(l), MaxFrozen)

\* ------------------------------------------------ periodic neighbours
North(s) == <<s[1], (s[2] + 1) % L>>
East(s) == <<(s[1] + 1) % L, s[2]>>
South(s) == <<s[1], (s[2] - 1 + L) % L>>
West(s) == <<(s[1] - 1 + L) % L, s[2]>>

\* site visited at scan position c of "for i, for j": i = c / L, j = c % L
ScanSite(c) == <<c \div L, c % L>>

\* a slip in the flip: "-= 1" for "*= -1"
NegateSlip(grid, s) == [grid EXCEPT ![s] = @ - 1]

\* lattice[x][y] *= -1
Negate(grid, s) == [grid EXCEPT ![s] = -1 * @]

\* ------------------------------------------------------------- SW::run
AllZero == [s \in Sites(L) |-> 0]
NoSite == <<-1, -1>>
NoOwner == [s \in Sites(L) |-> NoSite]
NoCoin == [s \in Sites(L) |-> None]

\* lines 110-131: locals, then the bond coins of every site
SWStart(F) ==
  /\ pc = "idle"
  /\ sweepsLeft > 0
  /\ sweepsLeft' = sweepsLeft - 1
  /\ ran' = Append(ran, "SW")
  /\ discovered' = AllZero
  /\ doesBondNorth' = [s \in Sites(L) |-> <<"n", s>> \in F]
  /\ doesBondEast' = [s \in Sites(L) |-> <<"e", s>> \in F]
  /\ counter' = 0
  /\ deq' = <<>>
  /\ flipCluster' = FALSE
  /\ lattice0' = lattice
  /\ enq' = AllZero
  /\ dqc' = AllZero
  /\ owner' = NoOwner
  /\ coin' = NoCoin
  /\ steps' = 0
  /\ pc' = "sw_scan"
  /\ UNCHANGED <<nonLat, L, lattice, metVars>>

\* lines 134-136 and 178: a site already discovered is passed over
SWSkip ==
  /\ pc = "sw_scan"
  /\ counter < L * L
  /\ discovered[ScanSite(counter)] # 0
  /\ counter' = counter + 1
  /\ steps' = steps + 1
  /\ UNCHANGED <<nonLat, engineVars, doesBondNorth, doesBondEast, discovered, deq,
                 flipCluster, lattice0, enq, dqc, owner, coin, metVars>>

\* lines 136-139: an undiscovered site seeds a cluster and draws its flip coin
SWSeed(f) ==
  /\ pc = "sw_scan"
  /\ counter < L * L
  /\ discovered[ScanSite(counter)] = 0
  /\ flipCluster' = f
  /\ deq' = <<ScanSite(counter)>>
  /\ discovered' = [discovered EXCEPT ![ScanSite(counter)] = 1]
  /\ enq' = [enq EXCEPT ![ScanSite(counter)] = @ + 1]
  /\ owner' = [owner EXCEPT ![ScanSite(counter)] = ScanSite(counter)]
  /\ pc' = "sw_bfs"
  /\ steps' = steps + 1
  /\ UNCHANGED <<nonLat, L, lattice, sweepsLeft, ran, doesBondNorth, doesBondEast, counter,
                 lattice0, dqc, coin, metVars>>

\* the bond consulted for each of the four neighbours (lines 147, 154, 161, 168)
\* a slip in the south lookup: the site's own north bond
SouthBondOwn(s) == doesBondNorth[s]

NorthBond(s) == doesBondNorth[s]
EastBond(s) == doesBondEast[s]
SouthBond(s) == doesBondNorth[South(s)]
WestBond(s) == doesBondEast[West(s)]

\* a slip in a neighbour test: the pushed site is not marked discovered
JoinForgetMark(st, cur, nb, bond) ==
  IF lattice[cur] = lattice[nb] /\ st.discovered[nb] = 0 /\ bond
  THEN [discovered |-> st.discovered,
        deq |-> Append(st.deq, nb),
        enq |-> [st.enq EXCEPT ![nb] = @ + 1],
        owner |-> [st.owner EXCEPT ![nb] = st.owner[cur]]]
  ELSE st

\* one neighbour test (lines 147-150, 154-157, 161-164, 168-171)
Join(st, cur, nb, bond) ==
  IF lattice[cur] = lattice[nb] /\ st.discovered[nb] = 0 /\ bond
  THEN [discovered |-> [st.discovered EXCEPT ![nb] = 1],
        deq |-> Append(st.deq, nb),
        enq |-> [st.enq EXCEPT ![nb] = @ + 1],
        owner |-> [st.owner EXCEPT ![nb] = st.owner[cur]]]
  ELSE st

\* the four tests in the order of the code
Neighbours(cur) ==
  LET s0 == [discovered |-> discovered, deq |-> deq, enq |-> enq, owner |-> owner]
      s1 == Join(s0, cur, North(cur), NorthBond(cur))
      s2 == Join(s1, cur, East(cur), EastBond(cur))
      s3 == Join(s2, cur, South(cur), SouthBond(cur))
  IN  Join(s3, cur, West(cur), WestBond(cur))

\* lines 141-176: one iteration of the while loop; when it empties the deque
\* control leaves the loop and line 178 advances the scan
SWVisit ==
  /\ pc = "sw_bfs"
  /\ deq # <<>>
  /\ LET cur == Head(deq)
         st == Neighbours(cur)
     IN  /\ discovered' = st.discovered
         /\ enq' = st.enq
         /\ owner' = st.owner
         /\ lattice' = IF flipCluster THEN Negate(lattice, cur) ELSE lattice
         /\ deq' = Tail(st.deq)
         /\ dqc' = [dqc EXCEPT ![cur] = @ + 1]
         /\ coin' = [coin EXCEPT ![cur] = IF flipCluster THEN "flipped" ELSE "kept"]
         /\ IF Tail(st.deq) = <<>>
            THEN pc' = "sw_scan" /\ counter' = counter + 1
            ELSE pc' = "sw_bfs" /\ counter' = counter
  /\ steps' = steps + 1
  /\ UNCHANGED <<nonLat, L, sweepsLeft, ran, doesBondNorth, doesBondEast, flipCluster,
                 lattice0, metVars>>

\* the scan loops are over (line 134 with i = L)
SWScanEnd ==
  /\ pc = "sw_scan"
  /\ counter = L * L
  /\ pc' = "sw_refill"
  /\ UNCHANGED <<nonLat, L, lattice, sweepsLeft, ran, swVars, swHist, metVars>>

\* lines 182-185: the three refills, and run() returns; its locals die
SWReturn ==
  /\ pc = "sw_refill"
  /\ pc' = "idle"
  /\ doesBondNorth' = None /\ doesBondEast' = None /\ discovered' = None
  /\ deq' = <<>> /\ flipCluster' = FALSE /\ counter' = 0
  /\ lattice0' = None /\ enq' = None /\ dqc' = None /\ owner' = None
  /\ coin' = None /\ steps' = 0
  /\ UNCHANGED <<nonLat, L, lattice, sweepsLeft, ran, metVars>>

\* flip coins a new seed may draw
FlipDraws ==
  IF pc # "sw_scan" THEN {}
  ELSE IF L <= ExhaustiveL
     \/ Cardinality({s \in Sites(L) : owner[s] = s /\ coin[s] = "flipped"}) < MaxFlips
  THEN BOOLEAN ELSE {FALSE}

SWNext ==
  \/ pc = "idle" /\ \E F \in FrozenSets(L) : SWStart(F)
  \/ SWSkip
  \/ \E f \in FlipDraws : SWSeed(f)
  \/ SWVisit
  \/ SWScanEnd
  \/ SWReturn

\* ----------------------------------------------- exponential cache
\* lines 11-14
get_exp_buffer_offset(J) == IF J > 0 THEN 8 * J ELSE -8 * J

\* lines 91-93: value_count = max_value - min_value + 1
ValueCount(J) == (8 * J) - (-8 * J) + 1

\* line 96: exp(-(dE - buffer_offset) / T) at loop index k, as its numerator
ExpEntry(k, J) == -1 * (k - get_exp_buffer_offset(J))

\* lines 89-98: the vector returned; code index k is sequence index k + 1
get_cached_exp_values(J) == [k \in 1 .. ValueCount(J) |-> ExpEntry(k - 1, J)]

\* a vector read v[idx]: the element, or any double when idx is outside the
\* vector (undefined behaviour)
AnyDouble == (-8 * MaxJ - 2) .. (8 * MaxJ + 2)
VectorRead(v, idx) == IF idx \in 0 .. Len(v) - 1 THEN {v[idx + 1]} ELSE AnyDouble

\* ----------------------------------------------------- Metropolis::run
\* int get_dE(grid, i, j): the energy change of flipping one spin, twice the
\* spin times the sum of its four periodic neighbours
get_dE(grid, s) ==
  2 * grid[s] * (grid[North(s)] + grid[South(s)] + grid[East(s)] + grid[West(s)])

\* reals the random buffer may hold: around the two thresholds exp(-4|J|/T)
\* and exp(-8|J|/T) of the engine
DrawnReals(J) ==
  {-4 * Abs(J) + d : d \in {-1, 0, 1}} \cup {-8 * Abs(J) + d : d \in {-1, 0, 1}}

\* a slip in the acceptance test: "<=" for "<" in the comparison of the reals
AcceptsOrEqual(d, r, e) == d <= 0 \/ r <= e

\* line 80: the acceptance test
Accepts(d, r, e) == d <= 0 \/ r < e

\* lines 69-76: run() is entered
MetStart ==
  /\ pc = "idle"
  /\ sweepsLeft > 0
  /\ m_J # 0
  /\ sweepsLeft' = sweepsLeft - 1
  /\ ran' = Append(ran, "Metropolis")
  /\ prop' = 0
  /\ pc' = "met_loop"
  /\ UNCHANGED <<nonLat, L, lattice, swVars, swHist, metCtor, flip_ij, dE, rnd>>

\* lines 76-79: proposal i takes its site from the index buffer and computes
\* dE; r is element i of the random buffer
MetDraw(site, r) ==
  /\ pc = "met_loop"
  /\ prop < L * L
  /\ flip_ij' = site
  /\ dE' = m_J * get_dE(lattice, site)
  /\ rnd' = r
  /\ pc' = "met_decide"
  /\ UNCHANGED <<nonLat, L, lattice, sweepsLeft, ran, swVars, swHist, metCtor, prop>>

\* lines 80-82: the acceptance test and the flip; the cache is read only when
\* dE > 0.  flip_i, flip_j and dE are overwritten before they are read again,
\* so they are indeterminate at the loop head.
MetDecide ==
  /\ pc = "met_decide"
  /\ \E e \in (IF dE <= 0 THEN {0}
               ELSE VectorRead(m_cached_exp_values, dE + get_exp_buffer_offset(m_J))) :
       lattice' = IF Accepts(dE, rnd, e) THEN Negate(lattice, flip_ij) ELSE lattice
  /\ prop' = prop + 1
  /\ flip_ij' = None /\ dE' = None /\ rnd' = None
  /\ pc' = "met_loop"
  /\ UNCHANGED <<nonLat, L, sweepsLeft, ran, swVars, swHist, metCtor>>

\* line 76 with i = size(): the loop is over
MetLoopEnd ==
  /\ pc = "met_loop"
  /\ prop = L * L
  /\ pc' = "met_refill"
  /\ UNCHANGED <<nonLat, L, lattice, sweepsLeft, ran, swVars, swHist, metVars>>

\* lines 84-86: the two refills, and run() returns
MetReturn ==
  /\ pc = "met_refill"
  /\ pc' = "idle"
  /\ prop' = 0
  /\ UNCHANGED <<nonLat, L, lattice, sweepsLeft, ran, swVars, swHist, metCtor, flip_ij, dE, rnd>>

MetNext ==
  \/ MetStart
  \/ pc = "met_loop" /\ \E site \in Sites(L) : \E r \in DrawnReals(m_J) : MetDraw(site, r)
  \/ MetDecide
  \/ MetLoopEnd
  \/ MetReturn

\* ------------------------------------ Metropolis::Metropolis, step by step
\* lines 95-96: one iteration of the loop of get_cached_exp_values
ExpPush ==
  /\ pc = "exp_loop"
  /\ exp_dE < ValueCount(m_J)
  /\ m_cached_exp_values' = Append(m_cached_exp_values, ExpEntry(exp_dE, m_J))
  /\ exp_dE' = exp_dE + 1
  /\ UNCHANGED <<nonLat, engineVars, swVars, swHist, m_J, prop, flip_ij, dE, rnd>>

\* lines 95 and 97, then lines 62-66: the vector is returned and the engine
\* is constructed
ExpReturn ==
  /\ pc = "exp_loop"
  /\ ~(exp_dE < ValueCount(m_J))
  /\ pc' = "idle"
  /\ UNCHANGED <<nonLat, L, lattice, sweepsLeft, ran, swVars, swHist, metVars>>

ExpNext == ExpPush \/ ExpReturn \/ MetNext

\* ------------------------------------------------- Buffered Random Source
\* the buffers an engine owns (the members of Metropolis and of SW)
Buffers(engine) ==
  IF engine = "Metropolis" THEN {"random", "index"} ELSE {"north", "east", "flip"}

\* construction: the first batch is generated before the constructor
\* returns, and the generation of the next one is launched
BufferCtor == [cur |-> 0, ready |-> FALSE]

\* get_buffer(): the current batch; changes nothing in the buffer
GetBuffer(b) ==
  /\ b_got' = [b_got EXCEPT ![b] = buf[b].cur]
  /\ b_flags' = [b_flags EXCEPT
       !.changed = @ \/ (b_got[b] # -1 /\ b_got[b] # buf[b].cur),
       !.late = @ \/ b_refills[b] > 0]
  /\ UNCHANGED <<buf, b_running, b_refills>>

\* refill(): waits for the in-flight batch, makes it the current one and
\* launches the generation of the next
Refill(b) ==
  /\ buf[b].ready
  /\ buf' = [buf EXCEPT ![b] = [cur |-> @.cur + 1, ready |-> FALSE]]
  /\ b_running' = [b_running EXCEPT ![b] = @ + 1]
  /\ b_got' = [b_got EXCEPT ![b] = -1]
  /\ b_refills' = [b_refills EXCEPT ![b] = @ + 1]
  /\ b_flags' = [b_flags EXCEPT !.early = @ \/ ~buf[b].ready]

\* the background task of buffer b finishes the in-flight batch
Generate(b) ==
  /\ ~buf[b].ready
  /\ buf' = [buf EXCEPT ![b].ready = TRUE]
  /\ b_running' = [b_running EXCEPT ![b] = @ - 1]
  /\ UNCHANGED <<nonBuf, b_engine, b_N, b_pc, b_i, b_calls, b_got, b_refills, b_flags>>

\* a slip in the refills of SW::run(): the north buffer twice, the east never
SWRefillOrderSlip == <<"north", "north", "flip">>

\* LatticeAlgorithms.cpp lines 84-85 and 182-184: the refills, in order
MetRefillOrder == <<"random", "index">>
SWRefillOrder == <<"north", "east", "flip">>
RefillOrder == IF b_engine = "Metropolis" THEN MetRefillOrder ELSE SWRefillOrder

\* run() is entered
BRunStart ==
  /\ b_pc = "idle"
  /\ b_calls < MaxSweeps
  /\ b_pc' = IF b_engine = "Metropolis" THEN "met_test" ELSE "sw_north"
  /\ b_i' = 0
  /\ b_refills' = [b \in Buffers(b_engine) |-> 0]
  /\ UNCHANGED <<nonBuf, b_engine, b_N, b_calls, buf, b_running, b_got, b_flags>>

\* Metropolis::run line 76: the loop test reads the size of the random buffer
BMetTest ==
  /\ b_pc = "met_test"
  /\ GetBuffer("random")
  /\ IF b_i < b_N THEN b_pc' = "met_first" /\ b_i' = b_i
                  ELSE b_pc' = "refill" /\ b_i' = 1
  /\ UNCHANGED <<nonBuf, b_engine, b_N, b_calls>>

\* lines 77 and 78: the two coordinates of element i of the index buffer
BMetFirst ==
  /\ b_pc = "met_first"
  /\ GetBuffer("index")
  /\ b_pc' = "met_second"
  /\ UNCHANGED <<nonBuf, b_engine, b_N, b_i, b_calls>>

BMetSecond ==
  /\ b_pc = "met_second"
  /\ GetBuffer("index")
  /\ b_pc' = "met_accept"
  /\ UNCHANGED <<nonBuf, b_engine, b_N, b_i, b_calls>>

\* line 80: element i of the random buffer is read when dE > 0
BMetAccept(positive) ==
  /\ b_pc = "met_accept"
  /\ IF positive THEN GetBuffer("random")
                 ELSE UNCHANGED <<buf, b_running, b_got, b_refills, b_flags>>
  /\ b_pc' = "met_test"
  /\ b_i' = b_i + 1
  /\ UNCHANGED <<nonBuf, b_engine, b_N, b_calls>>

\* SW::run lines 125-131: the bond coins of site number b_i
BSWNorth ==
  /\ b_pc = "sw_north"
  /\ IF b_i < b_N
     THEN GetBuffer("north") /\ b_pc' = "sw_east" /\ b_i' = b_i
     ELSE /\ b_pc' = "sw_flip" /\ b_i' = 0
          /\ UNCHANGED <<buf, b_running, b_got, b_refills, b_flags>>
  /\ UNCHANGED <<nonBuf, b_engine, b_N, b_calls>>

BSWEast ==
  /\ b_pc = "sw_east"
  /\ GetBuffer("east")
  /\ b_pc' = "sw_north"
  /\ b_i' = b_i + 1
  /\ UNCHANGED <<nonBuf, b_engine, b_N, b_calls>>

\* lines 134-137 and 178: the flip coin is read for an undiscovered site
BSWFlip(undiscovered) ==
  /\ b_pc = "sw_flip"
  /\ b_i < b_N
  /\ IF undiscovered THEN GetBuffer("flip")
                     ELSE UNCHANGED <<buf, b_running, b_got, b_refills, b_flags>>
  /\ b_i' = b_i + 1
  /\ b_pc' = "sw_flip"
  /\ UNCHANGED <<nonBuf, b_engine, b_N, b_calls>>

BSWScanEnd ==
  /\ b_pc = "sw_flip"
  /\ b_i = b_N
  /\ b_pc' = "refill"
  /\ b_i' = 1
  /\ UNCHANGED <<nonBuf, b_engine, b_N, b_calls, buf, b_running, b_got, b_refills, b_flags>>

\* lines 84-85 and 182-184: refill number b_i of the run
BRefill ==
  /\ b_pc = "refill"
  /\ b_i <= Len(RefillOrder)
  /\ Refill(RefillOrder[b_i])
  /\ b_i' = b_i + 1
  /\ UNCHANGED <<nonBuf, b_engine, b_N, b_pc, b_calls>>

\* lines 86 and 185: run() returns
BReturn ==
  /\ b_pc = "refill"
  /\ b_i > Len(RefillOrder)
  /\ b_pc' = "idle"
  /\ b_i' = 0
  /\ b_calls' = b_calls + 1
  /\ UNCHANGED <<nonBuf, b_engine, b_N, buf, b_running, b_got, b_refills, b_flags>>

BufNext ==
  \/ BRunStart
  \/ BMetTest \/ BMetFirst \/ BMetSecond
  \/ \E positive \in BOOLEAN : BMetAccept(positive)
  \/ BSWNorth \/ BSWEast
  \/ \E undiscovered \in BOOLEAN : BSWFlip(undiscovered)
  \/ BSWScanEnd
  \/ BRefill
  \/ BReturn
  \/ \E b \in Buffers(b_engine) : Generate(b)

\* ---------------------------------------------------------------- run_job
Algorithms == {"Metropolis", "SW"}
ImageModes == {"Movie", "Intervals"}
TempModes == {"Single", "Many", "Image"}

Jobs ==
  [m_algorithm : Algorithms, m_image_mode : ImageModes, m_temp_mode : TempModes,
   m_start_runs : 0 .. MaxStartRuns, m_n : 0 .. MaxN, m_temp_steps : 0 .. MaxTemps]

\* magneto.cpp lines 226-231: run_job(job) picks run_job<TAlg>
RunJob ==
  /\ j_pc = "run_job"
  /\ j_TAlg' = IF job.m_algorithm = "Metropolis" THEN "Metropolis" ELSE "SW"
  /\ j_pc' = "run_job_TAlg"
  /\ UNCHANGED <<nonJob, job, j_TImager, tasks, j_errors, j_writes>>

\* lines 220 and 222: the algorithm run_job<TAlg> passes on
PassedOnTAlg(TAlg) == "Metropolis"

\* lines 217-223: run_job<TAlg>(job) picks run_job<TAlg, TImager>
RunJobTAlg ==
  /\ j_pc = "run_job_TAlg"
  /\ IF job.m_image_mode = "Movie"
     THEN /\ j_TAlg' = PassedOnTAlg(j_TAlg) /\ j_TImager' = "MovieWriter"
          /\ j_pc' = "run_job_TImager"
     ELSE IF job.m_image_mode = "Intervals"
     THEN /\ j_TAlg' = PassedOnTAlg(j_TAlg) /\ j_TImager' = "IntervalWriter"
          /\ j_pc' = "run_job_TImager"
     ELSE /\ j_pc' = "returned" /\ UNCHANGED <<j_TAlg, j_TImager>>
  /\ UNCHANGED <<nonJob, job, tasks, j_errors, j_writes>>

\* a slip in the temperature mode test: Image is not singled out
TempModeBranchSlip(mode) == IF mode = "Many" THEN "many" ELSE "single"

\* lines 206, 208, 212: the branch taken for a temperature mode
TempModeBranch(mode) ==
  IF mode = "Image" THEN "error"
  ELSE IF mode = "Many" THEN "many"
  ELSE IF mode = "Single" THEN "single"
  ELSE "none"

\* lines 91-93 not yet executed: a get_physical_results call to be made
NewTask ==
  [pc |-> "new", i |-> 0, body |-> 1, ver |-> 0, events |-> <<>>,
   properties |-> 0, averaged |-> -1]

\* lines 204-214 and 192: Image logs an error; Many runs get_temps (lines
\* 126-135, one temperature per step); Single runs one temperature
RunJobTImager ==
  /\ j_pc = "run_job_TImager"
  /\ LET branch == TempModeBranch(job.m_temp_mode)
     IN  IF branch = "error"
         THEN /\ j_errors' = j_errors + 1
              /\ j_pc' = "returned"
              /\ tasks' = tasks
         ELSE IF branch = "many"
         THEN /\ tasks' = [t \in 1 .. job.m_temp_steps |-> NewTask]
              /\ j_pc' = "transform"
              /\ j_errors' = j_errors
         ELSE IF branch = "single"
         THEN /\ tasks' = <<NewTask>>
              /\ j_pc' = "transform"
              /\ j_errors' = j_errors
         ELSE /\ j_pc' = "returned"
              /\ UNCHANGED <<tasks, j_errors>>
  /\ UNCHANGED <<nonJob, job, j_TAlg, j_TImager, j_writes>>

Event(kind, who, ver) == [kind |-> kind, who |-> who, ver |-> ver]
InTransform == j_pc = "transform"

\* get_physical_results lines 91-97 and the first test of line 98
TaskBegin(t) ==
  /\ InTransform
  /\ tasks[t].pc = "new"
  /\ tasks' = [tasks EXCEPT ![t].pc = "warmup", ![t].i = 1, ![t].ver = 0]
  /\ UNCHANGED <<nonJob, job, j_pc, j_TAlg, j_TImager, j_errors, j_writes>>

\* a slip in the warmup loop test: "<=" for "<"
WarmupContinuesSlip(i, start_runs) == i <= start_runs

\* line 98: the warmup loop test
WarmupContinues(i, start_runs) == i < start_runs

\* lines 98-100: one warmup sweep, by the SW engine wang
TaskWarmup(t) ==
  /\ InTransform
  /\ tasks[t].pc = "warmup"
  /\ WarmupContinues(tasks[t].i, job.m_start_runs)
  /\ tasks' = [tasks EXCEPT
       ![t].events = Append(@, Event("warmup", "SW", tasks[t].ver)),
       ![t].ver = @ + 1,
       ![t].i = @ + 1]
  /\ UNCHANGED <<nonJob, job, j_pc, j_TAlg, j_TImager, j_errors, j_writes>>

\* lines 98 and 104-107: the warmup is over; the image writer and the engine
\* of the main loop are constructed
TaskWarmupEnd(t) ==
  /\ InTransform
  /\ tasks[t].pc = "warmup"
  /\ ~WarmupContinues(tasks[t].i, job.m_start_runs)
  /\ tasks' = [tasks EXCEPT ![t].pc = "main", ![t].i = 1, ![t].body = 1]
  /\ UNCHANGED <<nonJob, job, j_pc, j_TAlg, j_TImager, j_errors, j_writes>>

\* line 107: the main loop test
MainContinues(i, n) == i < n

\* a slip in the loop body: the sweep before the measurement
MainBodySlip == <<"snapshot", "sweep", "measure">>

\* lines 108-110: the statements of the main loop body
MainBody == <<"snapshot", "measure", "sweep">>

\* lines 107-111: the next statement of the main loop body
TaskBody(t) ==
  /\ InTransform
  /\ tasks[t].pc = "main"
  /\ tasks[t].body > 1 \/ MainContinues(tasks[t].i, job.m_n)
  /\ LET stmt == MainBody[tasks[t].body]
         last == tasks[t].body = Len(MainBody)
         who == IF stmt = "snapshot" THEN j_TImager
                ELSE IF stmt = "sweep" THEN j_TAlg
                ELSE "get_properties"
     IN  tasks' = [tasks EXCEPT
           ![t].events = Append(@, Event(stmt, who, tasks[t].ver)),
           ![t].properties = IF stmt = "measure" THEN @ + 1 ELSE @,
           ![t].ver = IF stmt = "sweep" THEN @ + 1 ELSE @,
           ![t].body = IF last THEN 1 ELSE @ + 1,
           ![t].i = IF last THEN @ + 1 ELSE @]
  /\ UNCHANGED <<nonJob, job, j_pc, j_TAlg, j_TImager, j_errors, j_writes>>

\* lines 107 and 112: the loop is over and end_actions() is called
TaskEndActions(t) ==
  /\ InTransform
  /\ tasks[t].pc = "main"
  /\ tasks[t].body = 1
  /\ ~MainContinues(tasks[t].i, job.m_n)
  /\ tasks' = [tasks EXCEPT
       ![t].events = Append(@, Event("end_actions", j_TImager, tasks[t].ver)),
       ![t].pc = "results"]
  /\ UNCHANGED <<nonJob, job, j_pc, j_TAlg, j_TImager, j_errors, j_writes>>

\* lines 115-121 (and get_mean, lines 39-43): the properties are averaged
TaskResults(t) ==
  /\ InTransform
  /\ tasks[t].pc = "results"
  /\ tasks' = [tasks EXCEPT ![t].averaged = tasks[t].properties, ![t].pc = "done"]
  /\ UNCHANGED <<nonJob, job, j_pc, j_TAlg, j_TImager, j_errors, j_writes>>

\* lines 193-200: every temperature is done; the results are written
WriteResults ==
  /\ InTransform
  /\ \A t \in DOMAIN tasks : tasks[t].pc = "done"
  /\ j_writes' = j_writes + 1
  /\ j_pc' = "returned"
  /\ UNCHANGED <<nonJob, job, j_TAlg, j_TImager, tasks, j_errors>>

JobNext ==
  \/ RunJob
  \/ RunJobTAlg
  \/ RunJobTImager
  \/ \E t \in DOMAIN tasks : TaskBegin(t)
  \/ \E t \in DOMAIN tasks : TaskWarmup(t)
  \/ \E t \in DOMAIN tasks : TaskWarmupEnd(t)
  \/ \E t \in DOMAIN tasks : TaskBody(t)
  \/ \E t \in DOMAIN tasks : TaskEndActions(t)
  \/ \E t \in DOMAIN tasks : TaskResults(t)
  \/ WriteResults

\* --------------------------------------------------------- specifications
InitSWLocals ==
  /\ doesBondNorth = None /\ doesBondEast = None /\ discovered = None
  /\ deq = <<>> /\ flipCluster = FALSE /\ counter = 0
  /\ lattice0 = None /\ enq = None /\ dqc = None /\ owner = None /\ coin = None
  /\ steps = 0

\* no job is modelled
InitNoJob ==
  /\ job = None /\ j_pc = None /\ j_TAlg = None /\ j_TImager = None
  /\ tasks = <<>> /\ j_errors = 0 /\ j_writes = 0

\* no buffers are modelled
InitNoBuf ==
  /\ b_engine = None /\ b_N = 0 /\ b_pc = None /\ b_i = 0 /\ b_calls = 0
  /\ buf = None /\ b_running = None /\ b_got = None /\ b_refills = None
  /\ b_flags = None

\* no Metropolis engine exists
InitNoMet ==
  /\ m_J = 0 /\ m_cached_exp_values = <<>> /\ exp_dE = 0 /\ prop = 0
  /\ flip_ij = None /\ dE = None /\ rnd = None

\* one SW::run() on an L x L lattice
InitSW ==
  /\ L \in 1 .. MaxL
  /\ lattice \in Lattices(L)
  /\ pc = "idle"
  /\ sweepsLeft = 1
  /\ ran = <<>>
  /\ InitSWLocals
  /\ InitNoBuf
  /\ InitNoJob
  /\ InitNoMet

SpecSW == InitSW /\ [][SWNext]_vars


\* lines 61-66: a Metropolis engine for coupling J > 0
InitMetEngine(J) ==
  /\ m_J = J /\ m_cached_exp_values = get_cached_exp_values(J)
  /\ exp_dE = IF ValueCount(J) > 0 THEN ValueCount(J) ELSE 0
  /\ prop = 0
  /\ flip_ij = None /\ dE = None /\ rnd = None

\* one Metropolis::run() on an L x L lattice
InitMet ==
  /\ L \in 1 .. MaxL
  /\ lattice \in Lattices(L)
  /\ pc = "idle"
  /\ sweepsLeft = 1
  /\ ran = <<>>
  /\ InitSWLocals
  /\ InitNoBuf
  /\ InitNoJob
  /\ \E J \in 1 .. MaxJ : InitMetEngine(J)

SpecMet == InitMet /\ [][MetNext]_vars

\* couplings a Metropolis engine may be constructed with
Couplings == {J \in -MaxJ .. MaxJ : J # 0}

\* Metropolis(J, T, L) is constructed, then run() is called once
InitExp ==
  /\ L \in 1 .. ExhaustiveL
  /\ lattice \in Lattices(L)
  /\ pc = "exp_loop"
  /\ sweepsLeft = 1
  /\ ran = <<>>
  /\ InitSWLocals
  /\ InitNoBuf
  /\ InitNoJob
  /\ m_J \in Couplings /\ m_cached_exp_values = <<>> /\ exp_dE = 0 /\ prop = 0
  /\ flip_ij = None /\ dE = None /\ rnd = None

SpecExp == InitExp /\ [][ExpNext]_vars

\* no lattice is modelled
InitNoLat ==
  /\ L = 0 /\ lattice = None /\ pc = None /\ sweepsLeft = 0 /\ ran = <<>>
  /\ InitSWLocals
  /\ InitNoMet

\* an engine for an L x L lattice has been constructed (lines 61-66 and
\* 101-107): each of its buffers holds L*L values
InitBuf ==
  /\ InitNoLat
  /\ InitNoJob
  /\ b_engine \in {"Metropolis", "SW"}
  /\ \E l \in 1 .. ExhaustiveL : b_N = l * l
  /\ b_pc = "idle" /\ b_i = 0 /\ b_calls = 0
  /\ buf = [b \in Buffers(b_engine) |-> BufferCtor]
  /\ b_running = [b \in Buffers(b_engine) |-> 1]
  /\ b_got = [b \in Buffers(b_engine) |-> -1]
  /\ b_refills = [b \in Buffers(b_engine) |-> 0]
  /\ b_flags = [changed |-> FALSE, late |-> FALSE, early |-> FALSE]

SpecBuf == InitBuf /\ [][BufNext]_vars

\* magneto::start() line 244: run_job(job) is called
InitJob ==
  /\ InitNoLat
  /\ InitNoBuf
  /\ job \in Jobs
  /\ j_pc = "run_job"
  /\ j_TAlg = None /\ j_TImager = None
  /\ tasks = <<>> /\ j_errors = 0 /\ j_writes = 0

SpecJob == InitJob /\ [][JobNext]_vars

\* magneto.cpp line 92: the coupling of every system and engine of a job
DriverJ == 1

\* a sequence of MaxSweeps runs, each of either engine, on one lattice
InitLat ==
  /\ L \in 1 .. ExhaustiveL
  /\ lattice \in Lattices(L)
  /\ pc = "idle"
  /\ sweepsLeft = MaxSweeps
  /\ ran = <<>>
  /\ InitSWLocals
  /\ InitNoBuf
  /\ InitNoJob
  /\ InitMetEngine(DriverJ)

LatNext == SWNext \/ MetNext

SpecLat == InitLat /\ [][LatNext]_vars

\* ----------------------------------------------------- claims on SW::run
InSWRun == pc \in {"sw_scan", "sw_bfs", "sw_refill"}

\* C1: in one SW::run() every site is pushed on the deque at most once and
\* popped at most once, a site is discovered exactly when it has been
\* pushed, the run is never stuck before the refills, it executes at most
\* 3*L*L loop iterations (so the flood fill terminates), and when the scan
\* is over every site has been discovered, pushed and popped exactly once.
C1_DiscoveredExactlyOnce ==
  InSWRun =>
    /\ \A s \in Sites(L) :
         /\ enq[s] <= 1
         /\ dqc[s] <= enq[s]
         /\ (discovered[s] = 1) <=> (enq[s] = 1)
    /\ steps <= 3 * L * L
    /\ ENABLED SWNext
    /\ pc = "sw_refill" =>
         /\ deq = <<>>
         /\ \A s \in Sites(L) : discovered[s] = 1 /\ enq[s] = 1 /\ dqc[s] = 1

\* C1 witness: a finished scan of a 3 x 3 lattice with a cluster of several
\* sites, a flipped cluster and a kept one.
C1_Witness ==
  /\ pc = "sw_refill"
  /\ L >= 3
  /\ \E s \in Sites(L) : owner[s] # s
  /\ \E s, t \in Sites(L) : coin[s] = "flipped" /\ coin[t] = "kept"

\* The percolation graph of the claim, on the lattice as run() found it: the
\* neighbours of a joined to it by a frozen bond between equal spins.
FrozenNeighbours(a) ==
  LET n == <<a[1], (a[2] + 1) % L>>
      e == <<(a[1] + 1) % L, a[2]>>
      s == <<a[1], (a[2] + L - 1) % L>>
      w == <<(a[1] + L - 1) % L, a[2]>>
  IN  {b \in {n} : doesBondNorth[a] /\ lattice0[a] = lattice0[b]}
        \cup {b \in {e} : doesBondEast[a] /\ lattice0[a] = lattice0[b]}
        \cup {b \in {s} : doesBondNorth[s] /\ lattice0[a] = lattice0[b]}
        \cup {b \in {w} : doesBondEast[w] /\ lattice0[a] = lattice0[b]}

RECURSIVE Reach(_, _)
Reach(seen, frontier) ==
  IF frontier = {} THEN seen
  ELSE LET new == UNION {FrozenNeighbours(a) : a \in frontier} \ seen
       IN  Reach(seen \cup new, new)

Component(s) == Reach({s}, {s})
Cluster(seed) == {t \in Sites(L) : owner[t] = seed}
Seeds == {s \in Sites(L) : owner[s] = s}
Growing == IF pc = "sw_bfs" THEN {owner[Head(deq)]} ELSE {}

\* C2: the sites grown from a seed all lie in the seed's connected component
\* of the frozen-bond graph; once a seed's flood fill is over they are exactly
\* that component; every popped site got the flip decision of its seed, and
\* its spin is the pre-sweep spin negated exactly when that decision was flip.
C2_ClustersAreComponents ==
  InSWRun =>
    /\ \A s \in Seeds :
         /\ Cluster(s) \subseteq Component(s)
         /\ s \notin Growing => Cluster(s) = Component(s)
    /\ \A t \in Sites(L) :
         /\ coin[t] # None => coin[t] = coin[owner[t]]
         /\ lattice[t] = IF coin[t] = "flipped" THEN -1 * lattice0[t] ELSE lattice0[t]
    /\ pc = "sw_refill" => \A t \in Sites(L) : owner[t] \in Seeds /\ coin[t] # None

\* C2 witness: a finished scan of a 3 x 3 lattice where a flipped cluster of
\* several sites was joined through a south or a west lookup, and a frozen
\* bond between unequal spins joined nothing.
C2_Witness ==
  /\ pc = "sw_refill"
  /\ L >= 3
  /\ \E s \in Sites(L) :
       /\ coin[s] = "flipped"
       /\ owner[s] = s
       /\ \/ doesBondNorth[South(s)] /\ owner[South(s)] = s
          \/ doesBondEast[West(s)] /\ owner[West(s)] = s
  /\ \E a \in Sites(L) : doesBondNorth[a] /\ lattice0[a] # lattice0[North(a)]


\* ------------------------------------------------ claims on Metropolis::run
\* C3: a proposal flips the spin at its site exactly when dE <= 0 or the drawn
\* real is less than exp_values[dE + offset], where dE is J times the local
\* energy delta of the site on the lattice as the earlier proposals left it
\* and the index read lies inside the cache; no other site changes.
C3_AcceptanceRule ==
  [][pc = "met_decide" =>
       LET d == m_J * get_dE(lattice, flip_ij)
           idx == d + 8 * (IF m_J < 0 THEN -1 * m_J ELSE m_J)
       IN  /\ dE = d
           /\ d > 0 => idx + 1 \in DOMAIN m_cached_exp_values
           /\ lattice' =
                IF d <= 0 \/ rnd < m_cached_exp_values[idx + 1]
                THEN [s \in Sites(L) |-> IF s = flip_ij THEN -1 * lattice[s] ELSE lattice[s]]
                ELSE lattice]_vars

\* C3 witness: after earlier proposals of a sweep of a 3 x 3 lattice, a
\* proposal with dE = 4J whose drawn real is below the Boltzmann factor.
C3_Witness ==
  /\ pc = "met_decide"
  /\ L >= 3
  /\ prop >= 1
  /\ dE = 4 * m_J
  /\ rnd < -1 * dE

\* ------------------------------------------------ claims on the exp cache
RealizableDeltas(J) == {4 * m * Abs(J) : m \in -2 .. 2}

\* C4: the cache returned for a nonzero J has length 16|J|+1, its entry at
\* index dE + 8|J| is the Boltzmann factor exp(-dE/T) for every realizable
\* dE, and every index Metropolis::run() reads lies inside it.
C4_CacheIndexing ==
  /\ pc # "exp_loop" =>
       /\ Len(m_cached_exp_values) = 16 * Abs(m_J) + 1
       /\ \A d \in RealizableDeltas(m_J) :
            /\ d + 8 * Abs(m_J) + 1 \in DOMAIN m_cached_exp_values
            /\ m_cached_exp_values[d + 8 * Abs(m_J) + 1] = -1 * d
  /\ (pc = "met_decide" /\ dE > 0) =>
       dE + 8 * Abs(m_J) \in 0 .. Len(m_cached_exp_values) - 1

\* ------------------------------------------------- claims on the buffers
\* C5: over any sequence of run() calls no get_buffer() of a buffer follows
\* that run's refill() of it, get_buffer() calls with no refill() between
\* them return the same batch, which is the current one and never the one in
\* flight, refill() promotes only a finished batch, at most one generation
\* task per buffer is outstanding, a run refills no buffer twice, and when a
\* run has returned every buffer of the engine has been refilled exactly
\* once per run.
C5_BufferProtocol ==
  /\ ~b_flags.late
  /\ ~b_flags.changed
  /\ ~b_flags.early
  /\ \A b \in Buffers(b_engine) :
       /\ b_running[b] <= 1
       /\ b_got[b] \in {-1, buf[b].cur}
       /\ b_refills[b] <= 1
       /\ b_pc = "idle" => buf[b].cur = b_calls
       /\ b_pc \in {"met_test", "met_first", "met_second", "met_accept",
                    "sw_north", "sw_east", "sw_flip"} => b_refills[b] = 0

\* C5 witness: in a second run(), after its reads, a refill() waits for the
\* batch whose generation the first run launched.
C5_Witness ==
  /\ b_pc = "refill"
  /\ b_calls >= 1
  /\ b_i <= Len(RefillOrder)
  /\ ~buf[RefillOrder[b_i]].ready
  /\ b_got[RefillOrder[b_i]] = buf[RefillOrder[b_i]].cur

\* --------------------------------------------------- claims on both engines
\* C9: through any sequence of Metropolis::run() and SW::run() calls the
\* lattice stays an L x L grid of spins in {-1, +1}, L never changes, and a
\* step changes an entry only by negating it.
C9_LatticeStaysSpinGrid ==
  /\ [](DOMAIN lattice = Sites(L) /\ \A s \in Sites(L) : lattice[s] \in Spin)
  /\ [][/\ L' = L
        /\ \A s \in Sites(L) : lattice'[s] \in {lattice[s], -1 * lattice[s]}]_vars

\* C9 witness: a Metropolis run and an SW run are over, and the lattice has
\* spins of both signs.
C9_Witness ==
  /\ pc = "idle"
  /\ \E a, b \in 1 .. Len(ran) : ran[a] = "SW" /\ ran[b] = "Metropolis"
  /\ \E s, t \in Sites(L) : lattice[s] = 1 /\ lattice[t] = -1

\* ------------------------------------------------------------ run_job claims
Max(a, b) == IF a >= b THEN a ELSE b
IsWarmup(e) == e.kind = "warmup"
IsMain(e) == e.kind # "warmup"
IsSnapshot(e) == e.kind = "snapshot"
IsMeasure(e) == e.kind = "measure"
IsSweep(e) == e.kind = "sweep"
IsEnd(e) == e.kind = "end_actions"
Count(events, Test(_)) == Len(SelectSeq(events, Test))
Cycle == <<"snapshot", "measure", "sweep">>
Finished(t) == tasks[t].pc \in {"results", "done"}

\* C6: every sweep of the main loop is run by the engine the job's algorithm
\* field selects, for every image mode.
C6_SelectedEngineRuns ==
  \A t \in DOMAIN tasks :
    \A k \in 1 .. Len(tasks[t].events) :
      IsSweep(tasks[t].events[k]) => tasks[t].events[k].who = job.m_algorithm

\* C7: for one temperature the events of the main loop are the cycle
\* snapshot, measurement, sweep, repeated; the snapshot and the measurement
\* of a cycle see the lattice the sweep of that cycle then advances;
\* end_actions is the last event, it happens once and only after the loop.
C7_EventOrder ==
  \A t \in DOMAIN tasks :
    LET events == tasks[t].events
        w == Count(events, IsWarmup)
        ev == SelectSeq(events, IsMain)
    IN  /\ \A k \in 1 .. Len(events) : IsWarmup(events[k]) => k <= w
        /\ \A k \in 1 .. Len(ev) :
             IF IsEnd(ev[k])
             THEN /\ k = Len(ev)
                  /\ (k - 1) % 3 = 0
                  /\ Finished(t)
             ELSE /\ ev[k].kind = Cycle[((k - 1) % 3) + 1]
                  /\ ev[k].ver = w + ((k - 1) \div 3)
        /\ Count(events, IsEnd) = (IF Finished(t) THEN 1 ELSE 0)
        /\ tasks[t].ver = w + Count(events, IsSweep)

C7_Witness ==
  \E t \in DOMAIN tasks :
    /\ Finished(t)
    /\ Count(tasks[t].events, IsSnapshot) >= 2
    /\ Count(tasks[t].events, IsWarmup) >= 1

\* C8: with temperature mode Image run_job logs one error and returns; no
\* temperature is run and nothing is written. With Single or Many every
\* temperature is run to its end and the results are written once. run_job
\* always has a next step until it returns.
C8_ImageModeSkipped ==
  /\ j_writes <= 1
  /\ j_errors <= 1
  /\ j_pc # "returned" => ENABLED JobNext
  /\ job.m_temp_mode = "Image" => tasks = <<>> /\ j_writes = 0
  /\ job.m_temp_mode # "Image" => j_errors = 0
  /\ j_pc = "returned" =>
       IF job.m_temp_mode = "Image"
       THEN j_errors = 1
       ELSE /\ j_writes = 1
            /\ Len(tasks) = (IF job.m_temp_mode = "Single" THEN 1
                             ELSE job.m_temp_steps)
            /\ \A t \in DOMAIN tasks : tasks[t].pc = "done"

C8_Witness ==
  /\ j_pc = "returned"
  /\ job.m_temp_mode = "Image"
  /\ j_errors = 1

\* C10: a finished temperature has had max(start_runs - 1, 0) warmup sweeps,
\* all by the SW engine, and max(n - 1, 0) snapshots, measurements and main
\* sweeps; the averaged sequence has max(n - 1, 0) elements, none for n <= 1.
C10_CycleCounts ==
  \A t \in DOMAIN tasks :
    LET events == tasks[t].events
        warmups == Max(job.m_start_runs - 1, 0)
        cycles == Max(job.m_n - 1, 0)
    IN  /\ \A k \in 1 .. Len(events) : IsWarmup(events[k]) => events[k].who = "SW"
        /\ Count(events, IsWarmup) <= warmups
        /\ Count(events, IsSnapshot) <= cycles
        /\ tasks[t].pc \in {"main", "results", "done"} =>
             Count(events, IsWarmup) = warmups
        /\ Finished(t) =>
             /\ Count(events, IsSnapshot) = cycles
             /\ Count(events, IsMeasure) = cycles
             /\ Count(events, IsSweep) = cycles
             /\ tasks[t].properties = cycles
        /\ tasks[t].pc = "done" => tasks[t].averaged = cycles

C10_Witness ==
  \E t \in DOMAIN tasks :
    /\ tasks[t].pc = "done"
    /\ job.m_n <= 1
    /\ tasks[t].averaged = 0
    /\ job.m_start_runs = 0
    /\ job.m_algorithm = "Metropolis"

====
